---- MODULE Spec2Model ----
(***************************************************************************)
(* Model of packages/blockchain-api/src/blockscout.ts: the BlockscoutAPI   *)
(* data source (address registry, the three feed requests) and the pure    *)
(* function resolveTransferEventType.                                      *)
(*                                                                         *)
(* Conventions.  An optional field (string | undefined) is a set with at   *)
(* most one element: {} is undefined.  A row's numeric strings (value,     *)
(* timeStamp, gasUsed, gasPrice) are the naturals they denote, so the      *)
(* string "0" is the number 0.  A BigNumber is a decimal [c, e] standing   *)
(* for c * 10^e.  The fields block, comment and input of an event are not  *)
(* modelled: no operation reads them back.                                 *)
(***************************************************************************)
EXTENDS Integers, Sequences, FiniteSets, TLC

VARIABLES registry,    \* the five cached fields of the BlockscoutAPI instance
          fetchCount,  \* getContractAddresses calls issued so far
          req,         \* the feed requests running on the instance
          call,        \* a single synchronous invocation (argument record)
          ret          \* its outcome

vars == <<registry, fetchCount, req, call, ret>>

----------------------------------------------------------------------------
(* Bounds of the model *)

MaxRequests == 2
MaxRows == 4
MaxGroup == 3

----------------------------------------------------------------------------
(* Constants of the program *)

\* WEI_PER_GOLD = Math.pow(10, 18): the decimal exponent it divides by
WEI_DECIMALS == 18

FAUCET_ADDRESS == "0xfaucet"

VERIFICATION_REWARDS_ADDRESS == "0xrewards"

\* String.prototype.toLowerCase on the strings of the model
toLowerCase(s) ==
  CASE s = "0xUSER" -> "0xuser"
    [] s = "0xSTABLE" -> "0xstable"
    [] s = "0xOTHER" -> "0xother"
    [] OTHER -> s

\* outcomes of a call: a value, or a thrown error
Ok(evs) == [status |-> "ok", events |-> evs, error |-> ""]

Throw(msg) == [status |-> "throw", events |-> <<>>, error |-> msg]

\* new BigNumber(v).dividedBy(WEI_PER_GOLD): exact, the exponent shifts
dividedByWei(v) == [c |-> v, e |-> 0 - WEI_DECIMALS]

----------------------------------------------------------------------------
(* Address registry *)

Unpopulated ==
  [tokenAddressMapping |-> {}, attestationsAddress |-> {}, escrowAddress |-> {},
   goldTokenAddress |-> {}, stableTokenAddress |-> {}]

\* a variant of the guard without the early return
AlreadyGotAddresses_NoCache(reg) == reg.tokenAddressMapping # reg.tokenAddressMapping

\* the guard of ensureTokenAddresses: "Already got addresses"
AlreadyGotAddresses(reg) ==
  /\ reg.tokenAddressMapping # {}
  /\ reg.attestationsAddress # {}
  /\ reg.escrowAddress # {}
  /\ reg.goldTokenAddress # {}
  /\ reg.stableTokenAddress # {}

\* the five assignments after the await in ensureTokenAddresses
StoreAddresses(addresses) ==
  [attestationsAddress |-> addresses.attestationsAddress,
   tokenAddressMapping |-> addresses.tokenAddressMapping,
   escrowAddress |-> addresses.escrowAddress,
   goldTokenAddress |-> addresses.goldTokenAddress,
   stableTokenAddress |-> addresses.stableTokenAddress]

The(opt) == CHOOSE v \in opt : TRUE

getTokenAtAddress(reg, tokenAddress) ==
  IF reg.tokenAddressMapping # {}
  THEN LET lowerCaseTokenAddress == toLowerCase(tokenAddress)
           mapping == The(reg.tokenAddressMapping)
       IN IF lowerCaseTokenAddress \in DOMAIN mapping
          THEN [status |-> "ok", val |-> mapping[lowerCaseTokenAddress]]
          ELSE [status |-> "throw", val |-> "No token corresponding to"]
  ELSE [status |-> "throw", val |-> "Cannot find tokenAddressMapping"]

getAttestationAddress(reg) ==
  IF reg.attestationsAddress # {}
  THEN [status |-> "ok", val |-> The(reg.attestationsAddress)]
  ELSE [status |-> "throw", val |-> "Cannot find attestation address"]

getEscrowAddress(reg) ==
  IF reg.escrowAddress # {}
  THEN [status |-> "ok", val |-> The(reg.escrowAddress)]
  ELSE [status |-> "throw", val |-> "Cannot find escrow address"]

----------------------------------------------------------------------------
(* Type resolver *)

\* a variant with the RECEIVED rule tested before the ESCROW_RECEIVED rule
resolveTransferEventType_ReceivedFirst(userAddress, eventToAddress, eventFromAddress, attestationsAddress, escrowAddress) ==
  IF eventToAddress = userAddress /\ eventFromAddress = FAUCET_ADDRESS
  THEN [status |-> "ok", type |-> "FAUCET", address |-> FAUCET_ADDRESS]
  ELSE IF eventToAddress = attestationsAddress /\ eventFromAddress = userAddress
  THEN [status |-> "ok", type |-> "VERIFICATION_FEE", address |-> attestationsAddress]
  ELSE IF eventToAddress = userAddress /\ eventFromAddress = VERIFICATION_REWARDS_ADDRESS
  THEN [status |-> "ok", type |-> "VERIFICATION_REWARD",
        address |-> VERIFICATION_REWARDS_ADDRESS]
  ELSE IF eventToAddress = userAddress
  THEN [status |-> "ok", type |-> "RECEIVED", address |-> eventFromAddress]
  ELSE IF eventToAddress = userAddress /\ eventFromAddress = escrowAddress
  THEN [status |-> "ok", type |-> "ESCROW_RECEIVED", address |-> eventFromAddress]
  ELSE IF eventFromAddress = userAddress /\ eventToAddress = escrowAddress
  THEN [status |-> "ok", type |-> "ESCROW_SENT", address |-> eventToAddress]
  ELSE IF eventFromAddress = userAddress
  THEN [status |-> "ok", type |-> "SENT", address |-> eventToAddress]
  ELSE [status |-> "throw", type |-> "", address |-> "No valid event type found"]

resolveTransferEventType(userAddress, eventToAddress, eventFromAddress, attestationsAddress, escrowAddress) ==
  IF eventToAddress = userAddress /\ eventFromAddress = FAUCET_ADDRESS
  THEN [status |-> "ok", type |-> "FAUCET", address |-> FAUCET_ADDRESS]
  ELSE IF eventToAddress = attestationsAddress /\ eventFromAddress = userAddress
  THEN [status |-> "ok", type |-> "VERIFICATION_FEE", address |-> attestationsAddress]
  ELSE IF eventToAddress = userAddress /\ eventFromAddress = VERIFICATION_REWARDS_ADDRESS
  THEN [status |-> "ok", type |-> "VERIFICATION_REWARD",
        address |-> VERIFICATION_REWARDS_ADDRESS]
  ELSE IF eventToAddress = userAddress /\ eventFromAddress = escrowAddress
  THEN [status |-> "ok", type |-> "ESCROW_RECEIVED", address |-> eventFromAddress]
  ELSE IF eventToAddress = userAddress
  THEN [status |-> "ok", type |-> "RECEIVED", address |-> eventFromAddress]
  ELSE IF eventFromAddress = userAddress /\ eventToAddress = escrowAddress
  THEN [status |-> "ok", type |-> "ESCROW_SENT", address |-> eventToAddress]
  ELSE IF eventFromAddress = userAddress
  THEN [status |-> "ok", type |-> "SENT", address |-> eventToAddress]
  ELSE [status |-> "throw", type |-> "", address |-> "No valid event type found"]

----------------------------------------------------------------------------
(* Transaction grouper: the Map from hash to rows, in insertion order *)

\* a variant of the lookup that never finds the hash: every row opens a group
MapIndex_NeverFound(map, hash) == 0 * Len(map)

\* txHashToEventTransactions.get(tx.hash): the position of the hash's entry, or 0
MapIndex(map, hash) ==
  IF \E k \in 1..Len(map) : map[k].hash = hash
  THEN CHOOSE k \in 1..Len(map) : map[k].hash = hash
  ELSE 0

RECURSIVE groupLoop(_, _, _)
groupLoop(rawTransactions, i, map) ==
  IF i > Len(rawTransactions) THEN map
  ELSE LET tx == rawTransactions[i]
           k == MapIndex(map, tx.hash)
       IN IF k = 0
          THEN groupLoop(rawTransactions, i + 1,
                         Append(map, [hash |-> tx.hash, transactions |-> <<tx>>]))
          ELSE groupLoop(rawTransactions, i + 1,
                         [map EXCEPT ![k].transactions = Append(@, tx)])

txHashToEventTransactions(rawTransactions) == groupLoop(rawTransactions, 1, <<>>)

----------------------------------------------------------------------------
(* Array.prototype.sort: stable, by the comparator's key, descending *)

\* a variant of the insertion that places an event before its equals
insertByTimestamp_BeforeEquals(sorted, ev) ==
  LET k == Cardinality({i \in 1..Len(sorted) : sorted[i].timestamp > ev.timestamp})
  IN SubSeq(sorted, 1, k) \o <<ev>> \o SubSeq(sorted, k + 1, Len(sorted))

insertByTimestamp(sorted, ev) ==
  LET k == Cardinality({i \in 1..Len(sorted) : sorted[i].timestamp >= ev.timestamp})
  IN SubSeq(sorted, 1, k) \o <<ev>> \o SubSeq(sorted, k + 1, Len(sorted))

RECURSIVE sortLoop(_, _, _)
sortLoop(events, i, sorted) ==
  IF i > Len(events) THEN sorted
  ELSE sortLoop(events, i + 1, insertByTimestamp(sorted, events[i]))

\* events.sort((a, b) => b.timestamp - a.timestamp)
sortByTimestampDesc(events) == sortLoop(events, 1, <<>>)

insertByValue(sorted, tx) ==
  LET k == Cardinality({i \in 1..Len(sorted) : sorted[i].value >= tx.value})
  IN SubSeq(sorted, 1, k) \o <<tx>> \o SubSeq(sorted, k + 1, Len(sorted))

RECURSIVE sortValueLoop(_, _, _)
sortValueLoop(txs, i, sorted) ==
  IF i > Len(txs) THEN sorted
  ELSE sortValueLoop(txs, i + 1, insertByValue(sorted, txs[i]))

\* stableTokenTxs.sort((a, b) => b.value - a.value)
sortByValueDesc(txs) == sortValueLoop(txs, 1, <<>>)

----------------------------------------------------------------------------
(* getFeedEvents *)

\* a variant that falls back to the first row when no row is sent by the user
feedExchangeLegs_FirstRowFallback(transactions, userAddress) ==
  IF toLowerCase(transactions[2].from) = userAddress
     /\ toLowerCase(transactions[1].from) # userAddress
  THEN [inEvent |-> transactions[2], outEvent |-> transactions[1]]
  ELSE [inEvent |-> transactions[1], outEvent |-> transactions[2]]

\* which of the two rows of an exchange is the in leg, which the out leg
feedExchangeLegs(transactions, userAddress) ==
  IF toLowerCase(transactions[1].from) = userAddress
  THEN [inEvent |-> transactions[1], outEvent |-> transactions[2]]
  ELSE [inEvent |-> transactions[2], outEvent |-> transactions[1]]

\* the forEach callback of getFeedEvents on one group
feedGroupEvents(reg, userAddress, transactions, txhash) ==
  IF Len(transactions) = 2
  THEN LET legs == feedExchangeLegs(transactions, userAddress)
           inSymbol == getTokenAtAddress(reg, legs.inEvent.contractAddress)
           outSymbol == getTokenAtAddress(reg, legs.outEvent.contractAddress)
       IN IF inSymbol.status = "throw" THEN Throw(inSymbol.val)
          ELSE IF outSymbol.status = "throw" THEN Throw(outSymbol.val)
          ELSE Ok(<<[type |-> "EXCHANGE",
                     timestamp |-> legs.inEvent.timeStamp,
                     inSymbol |-> inSymbol.val,
                     inValue |-> dividedByWei(legs.inEvent.value),
                     outSymbol |-> outSymbol.val,
                     outValue |-> dividedByWei(legs.outEvent.value),
                     hash |-> txhash]>>)
  ELSE LET event == transactions[1]
           eventToAddress == toLowerCase(event.to)
           eventFromAddress == toLowerCase(event.from)
           attestation == getAttestationAddress(reg)
           escrow == getEscrowAddress(reg)
           resolved == resolveTransferEventType(userAddress, eventToAddress,
                         eventFromAddress, attestation.val, escrow.val)
           symbol == getTokenAtAddress(reg, event.contractAddress)
       IN IF attestation.status = "throw" THEN Throw(attestation.val)
          ELSE IF escrow.status = "throw" THEN Throw(escrow.val)
          ELSE IF resolved.status = "throw" THEN Throw(resolved.address)
          ELSE IF symbol.status = "throw" THEN Throw(symbol.val)
          ELSE Ok(<<[type |-> resolved.type,
                     timestamp |-> event.timeStamp,
                     value |-> dividedByWei(event.value),
                     address |-> resolved.address,
                     symbol |-> IF symbol.val = "" THEN "unknown" ELSE symbol.val,
                     hash |-> txhash]>>)

RECURSIVE feedForEach(_, _, _, _, _)
feedForEach(reg, userAddress, map, i, events) ==
  IF i > Len(map) THEN Ok(events)
  ELSE LET r == feedGroupEvents(reg, userAddress, map[i].transactions, map[i].hash)
       IN IF r.status = "throw" THEN r
          ELSE feedForEach(reg, userAddress, map, i + 1, events \o r.events)

\* the events array of getFeedEvents as pushed, before the final sort
feedEventsProduced(reg, address, rawTransactions) ==
  feedForEach(reg, toLowerCase(address), txHashToEventTransactions(rawTransactions),
              1, <<>>)

getFeedEvents(reg, address, rawTransactions) ==
  LET produced == feedEventsProduced(reg, address, rawTransactions)
  IN IF produced.status = "throw" THEN produced
     ELSE Ok(sortByTimestampDesc(produced.events))

----------------------------------------------------------------------------
(* getFeedRewards *)

RECURSIVE rewardsLoop(_, _, _, _)
rewardsLoop(reg, rawTransactions, i, rewards) ==
  IF i > Len(rawTransactions) THEN Ok(rewards)
  ELSE LET t == rawTransactions[i]
           symbol == getTokenAtAddress(reg, t.contractAddress)
       IN IF toLowerCase(t.from) # VERIFICATION_REWARDS_ADDRESS
          THEN rewardsLoop(reg, rawTransactions, i + 1, rewards)
          ELSE IF symbol.status = "throw" THEN Throw(symbol.val)
          ELSE rewardsLoop(reg, rawTransactions, i + 1,
                 Append(rewards,
                        [type |-> "VERIFICATION_REWARD",
                         timestamp |-> t.timeStamp,
                         value |-> dividedByWei(t.value),
                         address |-> VERIFICATION_REWARDS_ADDRESS,
                         symbol |-> symbol.val,
                         hash |-> t.hash]))

\* the rewards array of getFeedRewards as pushed, before the final sort
feedRewardsProduced(reg, rawTransactions) == rewardsLoop(reg, rawTransactions, 1, <<>>)

getFeedRewards(reg, rawTransactions) ==
  LET produced == feedRewardsProduced(reg, rawTransactions)
  IN IF produced.status = "throw" THEN produced
     ELSE Ok(sortByTimestampDesc(produced.events))

----------------------------------------------------------------------------
(* getTokenTransactions *)

tokenExchangeLegs(transactions, userAddress) ==
  IF toLowerCase(transactions[1].from) = userAddress
  THEN [inEvent |-> transactions[1], outEvent |-> transactions[2]]
  ELSE [inEvent |-> transactions[2], outEvent |-> transactions[1]]

\* new BigNumber(value).multipliedBy(negative ? -1 : 1).dividedBy(WEI_PER_GOLD)
signedAmount(value, negative) == dividedByWei(value * (IF negative THEN 0 - 1 ELSE 1))

\* the size-2 branch: one EXCHANGE event when a leg is in the queried token
tokenExchangeEvents(token, userAddress, transactions, txhash) ==
  LET legs == tokenExchangeLegs(transactions, userAddress)
      inEvent == legs.inEvent
      outEvent == legs.outEvent
      inIsToken == inEvent.tokenSymbol = token
      found == inIsToken \/ outEvent.tokenSymbol = token
      tokenEvent == IF inIsToken THEN inEvent ELSE outEvent
      timestamp == inEvent.timeStamp * 1000
  IN IF found
     THEN Ok(<<[type |-> "EXCHANGE",
                timestamp |-> timestamp,
                amount |-> [value |-> signedAmount(tokenEvent.value, inIsToken),
                            currencyCode |-> tokenEvent.tokenSymbol,
                            timestamp |-> timestamp],
                makerAmount |-> [value |-> dividedByWei(inEvent.value),
                                 currencyCode |-> inEvent.tokenSymbol,
                                 timestamp |-> timestamp],
                takerAmount |-> [value |-> dividedByWei(outEvent.value),
                                 currencyCode |-> outEvent.tokenSymbol,
                                 timestamp |-> timestamp],
                hash |-> txhash]>>)
     ELSE Ok(<<>>)

\* a variant of the filter that keeps the rows of value '0'
stableTokenTxs_KeepsZero(reg, transactions) ==
  sortByValueDesc(SelectSeq(transactions,
    LAMBDA tx : {toLowerCase(tx.contractAddress)} = reg.stableTokenAddress))

\* transactions.filter(stable-token contract and value !== '0'), then sorted
stableTokenTxs(reg, transactions) ==
  sortByValueDesc(SelectSeq(transactions,
    LAMBDA tx : /\ {toLowerCase(tx.contractAddress)} = reg.stableTokenAddress
                /\ tx.value # 0))

\* a variant that omits the second pair test of the fee heuristic
selectTransfer_OnePairTest(stable) ==
  LET gasValue == stable[1].gasUsed * stable[1].gasPrice
  IN IF Len(stable) = 1 THEN <<stable[1]>>
     ELSE IF Len(stable) = 3
     THEN IF stable[1].value + stable[2].value = gasValue THEN <<stable[3]>>
          ELSE <<stable[1]>>
     ELSE <<>>

\* a variant whose default case takes the highest-value row
selectTransfer_NoDefault(stable) ==
  LET gasValue == stable[1].gasUsed * stable[1].gasPrice
  IN IF Len(stable) = 1 THEN <<stable[1]>>
     ELSE IF Len(stable) = 3
     THEN IF stable[1].value + stable[2].value = gasValue THEN <<stable[3]>>
          ELSE IF stable[1].value + stable[3].value = gasValue THEN <<stable[2]>>
          ELSE <<stable[1]>>
     ELSE <<stable[1]>>

\* the switch on stableTokenTxs.length: the row taken for the transfer, if any
selectTransfer(stable) ==
  LET gasValue == stable[1].gasUsed * stable[1].gasPrice
  IN IF Len(stable) = 1 THEN <<stable[1]>>
     ELSE IF Len(stable) = 3
     THEN IF stable[1].value + stable[2].value = gasValue THEN <<stable[3]>>
          ELSE IF stable[1].value + stable[3].value = gasValue THEN <<stable[2]>>
          ELSE <<stable[1]>>
     ELSE <<>>

\* a variant with the sign of the amount inverted
amountIsNegative_Inverted(eventFromAddress, userAddress) == eventFromAddress # userAddress

\* the sign of a transfer's amount: negative when the row's sender is the user
amountIsNegative(eventFromAddress, userAddress) == eventFromAddress = userAddress

\* classification and emission of the selected row
tokenTransferEvents(reg, userAddress, event, txhash) ==
  LET eventToAddress == toLowerCase(event.to)
      eventFromAddress == toLowerCase(event.from)
      attestation == getAttestationAddress(reg)
      escrow == getEscrowAddress(reg)
      resolved == resolveTransferEventType(userAddress, eventToAddress,
                    eventFromAddress, attestation.val, escrow.val)
      timestamp == event.timeStamp * 1000
  IN IF attestation.status = "throw" THEN Throw(attestation.val)
     ELSE IF escrow.status = "throw" THEN Throw(escrow.val)
     ELSE IF resolved.status = "throw" THEN Throw(resolved.address)
     ELSE Ok(<<[type |-> resolved.type,
                timestamp |-> timestamp,
                amount |-> [value |-> signedAmount(event.value,
                                        amountIsNegative(eventFromAddress, userAddress)),
                            currencyCode |-> event.tokenSymbol,
                            timestamp |-> timestamp],
                address |-> resolved.address,
                hash |-> txhash]>>)

\* the forEach callback of getTokenTransactions on one group
tokenGroupEvents(reg, token, userAddress, transactions, txhash) ==
  IF Len(transactions) = 2
  THEN tokenExchangeEvents(token, userAddress, transactions, txhash)
  ELSE LET stable == stableTokenTxs(reg, transactions)
       IN IF Len(stable) < 1 THEN Ok(<<>>)
          ELSE LET selected == selectTransfer(stable)
               IN IF selected = <<>> THEN Ok(<<>>)
                  ELSE tokenTransferEvents(reg, userAddress, selected[1], txhash)

RECURSIVE tokenForEach(_, _, _, _, _, _)
tokenForEach(reg, token, userAddress, map, i, events) ==
  IF i > Len(map) THEN Ok(events)
  ELSE LET r == tokenGroupEvents(reg, token, userAddress, map[i].transactions,
                                 map[i].hash)
       IN IF r.status = "throw" THEN r
          ELSE tokenForEach(reg, token, userAddress, map, i + 1, events \o r.events)

\* the events array of getTokenTransactions as pushed, before filter and sort
tokenTransactionsProduced(reg, address, token, rawTransactions) ==
  tokenForEach(reg, token, toLowerCase(address),
               txHashToEventTransactions(rawTransactions), 1, <<>>)

\* events.filter((event) => event.amount.currencyCode === args.token)
filterByToken(events, token) ==
  SelectSeq(events, LAMBDA ev : ev.amount.currencyCode = token)

getTokenTransactions(reg, address, token, rawTransactions) ==
  LET produced == tokenTransactionsProduced(reg, address, token, rawTransactions)
  IN IF produced.status = "throw" THEN produced
     ELSE Ok(sortByTimestampDesc(filterByToken(produced.events, token)))

----------------------------------------------------------------------------
(* Inputs: what the collaborators may return *)

\* one token-transfer row of the explorer's response
Row(hash, from, to, contractAddress, tokenSymbol, value, timeStamp, gasUsed, gasPrice) ==
  [hash |-> hash, from |-> from, to |-> to, contractAddress |-> contractAddress,
   tokenSymbol |-> tokenSymbol, value |-> value, timeStamp |-> timeStamp,
   gasUsed |-> gasUsed, gasPrice |-> gasPrice]

\* a resolution with every field present
FullAddresses ==
  [tokenAddressMapping |-> {[a \in {"0xstable", "0xgold"} |->
                               IF a = "0xstable" THEN "cUSD" ELSE "cGLD"]},
   attestationsAddress |-> {"0xattest"},
   escrowAddress |-> {"0xescrow"},
   goldTokenAddress |-> {"0xgold"},
   stableTokenAddress |-> {"0xstable"}]

\* what getContractAddresses may resolve to: every field, or one absent
ContractAddressAnswers ==
  { FullAddresses,
    [FullAddresses EXCEPT !.stableTokenAddress = {}],
    [FullAddresses EXCEPT !.attestationsAddress = {}],
    [FullAddresses EXCEPT !.tokenAddressMapping = {}] }

\* the responses of the explorer to the requests of the running instance
ServedBatches ==
  LET sent == Row("h1", "0xUSER", "0xother", "0xSTABLE", "cUSD", 2, 1, 1, 1)
      got == Row("h2", "0xother", "0xuser", "0xgold", "cGLD", 1, 2, 1, 1)
      alien == Row("h1", "0xother", "0xother", "0xstable", "cUSD", 1, 1, 1, 1)
      reward == Row("h2", "0xrewards", "0xuser", "0xstable", "cUSD", 1, 2, 1, 1)
  IN { <<>>, <<sent>>, <<sent, got>>, <<sent, alien>>, <<alien>>, <<reward, got>> }

FeedFunctions == {"getFeedEvents", "getFeedRewards", "getTokenTransactions"}

Pending == [status |-> "pending", events |-> <<>>, error |-> ""]

\* the function of the instance that a call record names, applied
Apply(c, reg) ==
  CASE c.fn = "getFeedEvents" -> getFeedEvents(reg, c.address, c.raw)
    [] c.fn = "getFeedRewards" -> getFeedRewards(reg, c.raw)
    [] c.fn = "getTokenTransactions" -> getTokenTransactions(reg, c.address, c.token, c.raw)

----------------------------------------------------------------------------
(* The instance serving concurrent feed requests *)

Requests == 1..MaxRequests

NoCall == [fn |-> "none"]

Idle ==
  [r \in Requests |-> [pc |-> "idle", fn |-> "none", address |-> "", token |-> "",
                       raw |-> <<>>, result |-> Pending]]

Init ==
  /\ registry = Unpopulated
  /\ fetchCount = 0
  /\ req = Idle
  /\ call = NoCall
  /\ ret = Pending

\* a resolver call of the server: the function runs up to its first await
StartRequest(r) ==
  /\ req[r].pc = "idle"
  /\ \E fn \in FeedFunctions :
       req' = [req EXCEPT ![r].pc = "awaitRaw", ![r].fn = fn,
                          ![r].address = "0xUSER", ![r].token = "cUSD"]
  /\ UNCHANGED <<registry, fetchCount, call, ret>>

\* getRawTokenTransactions resolves; the rows are grouped and
\* ensureTokenAddresses runs up to its return or its await
RawTransactionsReturned(r) ==
  /\ req[r].pc = "awaitRaw"
  /\ \E raw \in ServedBatches :
       IF AlreadyGotAddresses(registry)
       THEN /\ req' = [req EXCEPT ![r].pc = "awaitEnsure", ![r].raw = raw]
            /\ UNCHANGED fetchCount
       ELSE /\ req' = [req EXCEPT ![r].pc = "awaitAddresses", ![r].raw = raw]
            /\ fetchCount' = fetchCount + 1
  /\ UNCHANGED <<registry, call, ret>>

\* getContractAddresses resolves; the five fields are assigned
ContractAddressesReturned(r) ==
  /\ req[r].pc = "awaitAddresses"
  /\ \E addresses \in ContractAddressAnswers :
       registry' = StoreAddresses(addresses)
  /\ req' = [req EXCEPT ![r].pc = "awaitEnsure"]
  /\ UNCHANGED <<fetchCount, call, ret>>

\* the request resumes after ensureTokenAddresses: classification, sort, return
FinishRequest(r) ==
  /\ req[r].pc = "awaitEnsure"
  /\ LET result == Apply(req[r], registry)
     IN req' = [req EXCEPT ![r].result = result,
                           ![r].pc = IF result.status = "ok" THEN "returned"
                                     ELSE "rejected"]
  /\ UNCHANGED <<registry, fetchCount, call, ret>>

Next ==
  \E r \in Requests :
    \/ StartRequest(r)
    \/ RawTransactionsReturned(r)
    \/ ContractAddressesReturned(r)
    \/ FinishRequest(r)

Spec == Init /\ [][Next]_vars

----------------------------------------------------------------------------
(* One feed function applied to a batch, on a populated instance *)

FeedCalls(batches) ==
  {[fn |-> fn, address |-> "0xUSER", token |-> "cUSD", raw |-> raw] :
     fn \in FeedFunctions, raw \in batches}
  \cup {[fn |-> "getTokenTransactions", address |-> "0xUSER", token |-> "cGLD",
         raw |-> raw] : raw \in batches}

InvokeGetFeedEvents ==
  /\ call.fn = "getFeedEvents"
  /\ ret.status = "pending"
  /\ ret' = getFeedEvents(registry, call.address, call.raw)
  /\ UNCHANGED <<registry, fetchCount, req, call>>

InvokeGetFeedRewards ==
  /\ call.fn = "getFeedRewards"
  /\ ret.status = "pending"
  /\ ret' = getFeedRewards(registry, call.raw)
  /\ UNCHANGED <<registry, fetchCount, req, call>>

InvokeGetTokenTransactions ==
  /\ call.fn = "getTokenTransactions"
  /\ ret.status = "pending"
  /\ ret' = getTokenTransactions(registry, call.address, call.token, call.raw)
  /\ UNCHANGED <<registry, fetchCount, req, call>>

NextFeed == InvokeGetFeedEvents \/ InvokeGetFeedRewards \/ InvokeGetTokenTransactions

\* batches over two hashes; the rows of a hash share its timestamp
FeedRows(ts) ==
  {Row(h, "0xrewards", "0xUSER", "0xSTABLE", "cUSD", 3, ts[h], 1, 1) : h \in {"h1", "h2"}}
  \cup {Row(h, "0xother", "0xuser", "0xgold", "cGLD", 2, ts[h], 1, 1) : h \in {"h1", "h2"}}
  \cup {Row(h, "0xother", "0xOTHER", "0xstable", "cUSD", 1, ts[h], 1, 1) : h \in {"h1", "h2"}}

\* the timestamps of the two hashes: equal, the first older, the first newer
FeedTimestamps ==
  {[h \in {"h1", "h2"} |-> IF h = "h1" THEN t[1] ELSE t[2]] :
     t \in {<<1, 1>>, <<1, 2>>, <<2, 1>>}}

InitFeed ==
  /\ registry = StoreAddresses(FullAddresses)
  /\ fetchCount = 1
  /\ req = Idle
  /\ \E ts \in FeedTimestamps, n \in 0..MaxRows :
       \E raw \in [1..n -> FeedRows(ts)] : call \in FeedCalls({raw})
  /\ ret = Pending

SpecFeed == InitFeed /\ [][NextFeed]_vars

----------------------------------------------------------------------------
(* One grouped feed function applied to a single group *)

\* the rows of one transaction: they share hash, timestamp and receipt
GroupRows(gasUsed, gasPrice) ==
  {Row("h1", from, to, "0xSTABLE", "cUSD", 1, 1, gasUsed, gasPrice) :
     from \in {"0xUSER", "0xother"}, to \in {"0xuser", "0xOTHER"}}
  \cup {Row("h1", "0xUSER", "0xother", "0xstable", "cUSD", value, 1, gasUsed, gasPrice) :
          value \in {0, 2, 3}}
  \cup {Row("h1", "0xother", "0xuser", "0xstable", "cUSD", 2, 1, gasUsed, gasPrice),
        Row("h1", "0xother", "0xuser", "0xgold", "cGLD", 1, 1, gasUsed, gasPrice),
        Row("h1", "0xUSER", "0xother", "0xgold", "cGLD", 1, 1, gasUsed, gasPrice)}

InitGroup ==
  /\ registry = StoreAddresses(FullAddresses)
  /\ fetchCount = 1
  /\ req = Idle
  /\ \E gasPrice \in {3, 4, 5}, n \in 1..MaxGroup :
       \E raw \in [1..n -> GroupRows(1, gasPrice)] :
         /\ call \in FeedCalls({raw})
         /\ call.fn # "getFeedRewards"
  /\ ret = Pending

NextGroup == InvokeGetFeedEvents \/ InvokeGetTokenTransactions

SpecGroup == InitGroup /\ [][NextGroup]_vars

----------------------------------------------------------------------------
(* resolveTransferEventType applied to five addresses *)

ResolverAddresses ==
  {"0xuser", "0xother", "0xattest", "0xescrow", FAUCET_ADDRESS,
   VERIFICATION_REWARDS_ADDRESS}

ResolverCalls ==
  [fn : {"resolveTransferEventType"}, userAddress : ResolverAddresses,
   eventToAddress : ResolverAddresses, eventFromAddress : ResolverAddresses,
   attestationsAddress : ResolverAddresses, escrowAddress : ResolverAddresses]

InvokeResolve ==
  /\ call.fn = "resolveTransferEventType"
  /\ ret.status = "pending"
  /\ ret' = resolveTransferEventType(call.userAddress, call.eventToAddress,
              call.eventFromAddress, call.attestationsAddress, call.escrowAddress)
  /\ UNCHANGED <<registry, fetchCount, req, call>>

InitResolve ==
  /\ registry = Unpopulated
  /\ fetchCount = 0
  /\ req = Idle
  /\ call \in ResolverCalls
  /\ ret = Pending

NextResolve == InvokeResolve

SpecResolve == InitResolve /\ [][NextResolve]_vars

----------------------------------------------------------------------------
(* Properties of the type resolver, under SpecResolve *)

\* the rule table of the resolver as the specification lists it, in order
C4_Rules(c) ==
  <<[match |-> c.eventToAddress = c.userAddress /\ c.eventFromAddress = FAUCET_ADDRESS,
     type |-> "FAUCET", address |-> FAUCET_ADDRESS],
    [match |-> c.eventToAddress = c.attestationsAddress
               /\ c.eventFromAddress = c.userAddress,
     type |-> "VERIFICATION_FEE", address |-> c.attestationsAddress],
    [match |-> c.eventToAddress = c.userAddress
               /\ c.eventFromAddress = VERIFICATION_REWARDS_ADDRESS,
     type |-> "VERIFICATION_REWARD", address |-> VERIFICATION_REWARDS_ADDRESS],
    [match |-> c.eventToAddress = c.userAddress /\ c.eventFromAddress = c.escrowAddress,
     type |-> "ESCROW_RECEIVED", address |-> c.eventFromAddress],
    [match |-> c.eventToAddress = c.userAddress,
     type |-> "RECEIVED", address |-> c.eventFromAddress],
    [match |-> c.eventFromAddress = c.userAddress /\ c.eventToAddress = c.escrowAddress,
     type |-> "ESCROW_SENT", address |-> c.escrowAddress],
    [match |-> c.eventFromAddress = c.userAddress,
     type |-> "SENT", address |-> c.eventToAddress]>>

C4_Matching(c) == {i \in 1..7 : C4_Rules(c)[i].match}

\* C4: resolveTransferEventType returns the type and the counterparty of the
\* first rule that matches, in the fixed order of the seven rules, also when
\* several rules match at once, and it fails exactly when no rule matches.
C4_FirstMatchingRuleWins ==
  ret.status # "pending" =>
    LET matching == C4_Matching(call)
    IN IF matching = {}
       THEN ret.status = "throw"
       ELSE LET first == CHOOSE i \in matching : \A j \in matching : i <= j
            IN /\ ret.status = "ok"
               /\ ret.type = C4_Rules(call)[first].type
               /\ ret.address = C4_Rules(call)[first].address

\* a transfer from the escrow to the viewer that is also the faucet's: the rules
\* FAUCET, ESCROW_RECEIVED and RECEIVED match at once and FAUCET is returned
C4_SeveralRulesMatch ==
  /\ ret.status = "ok"
  /\ {1, 4, 5} \subseteq C4_Matching(call)
  /\ ret.type = "FAUCET"

----------------------------------------------------------------------------
(* Properties of the address registry, under Spec *)

\* C5: while the registry is unpopulated, concurrent callers of
\* ensureTokenAddresses share one outbound getContractAddresses request: at no
\* time are two such requests in flight.
C5_SingleFlight ==
  Cardinality({r \in Requests : req[r].pc = "awaitAddresses"}) <= 1

C7_AllFiveSet ==
  \A f \in {"tokenAddressMapping", "attestationsAddress", "escrowAddress",
            "goldTokenAddress", "stableTokenAddress"} : registry[f] # {}

\* C7: once all five registry fields are set and no resolution is in flight,
\* no step of any further call issues a getContractAddresses request or
\* changes a registry field.
C7_IdempotentOncePopulated ==
  [][(C7_AllFiveSet /\ \A r \in Requests : req[r].pc # "awaitAddresses")
       => (fetchCount' = fetchCount /\ registry' = registry)]_vars

\* two requests have passed ensureTokenAddresses on a fully populated
\* registry with a single resolution request issued: the later one returned early
C7_SecondCallSkipsFetch ==
  /\ C7_AllFiveSet
  /\ fetchCount = 1
  /\ \E r1, r2 \in Requests :
       /\ r1 # r2
       /\ req[r1].pc \in {"returned", "rejected"}
       /\ req[r2].pc \in {"awaitEnsure", "returned", "rejected"}

\* the registry fields that the classification of request q reads on its batch
C6_FieldsRead(q, reg) ==
  LET groups == txHashToEventTransactions(q.raw)
      plain == {k \in 1..Len(groups) : Len(groups[k].transactions) # 2}
  IN (IF \/ q.fn = "getFeedEvents" /\ q.raw # <<>>
         \/ q.fn = "getFeedRewards"
            /\ \E i \in 1..Len(q.raw) :
                 toLowerCase(q.raw[i].from) = VERIFICATION_REWARDS_ADDRESS
      THEN {"tokenAddressMapping"} ELSE {})
     \cup
     (IF q.fn = "getTokenTransactions" /\ plain # {}
      THEN {"stableTokenAddress"} ELSE {})
     \cup
     (IF \/ q.fn = "getFeedEvents" /\ plain # {}
         \/ q.fn = "getTokenTransactions"
            /\ \E k \in plain :
                 LET stable == stableTokenTxs(reg, groups[k].transactions)
                 IN Len(stable) >= 1 /\ selectTransfer(stable) # <<>>
      THEN {"attestationsAddress", "escrowAddress"} ELSE {})

\* C6: a feed request returns a feed only if every registry field that its
\* classification reads was present when it classified; with such a field
\* absent the request fails instead of returning.
C6_FailsFastOnAbsentField ==
  [][\A r \in Requests :
       (req[r].pc = "awaitEnsure" /\ req'[r].pc = "returned")
         => \A f \in C6_FieldsRead(req[r], registry) : registry[f] # {}]_vars

----------------------------------------------------------------------------
(* Properties of the classification of one group, under SpecGroup *)

C1_User == toLowerCase(call.address)

C1_Sends(i) == toLowerCase(call.raw[i].from) = C1_User

\* the returned exchange event shows row i as the in leg and row o as the out leg
C1_LegsShown(i, o) ==
  LET inLeg == call.raw[i]
      outLeg == call.raw[o]
  IN IF call.fn = "getFeedEvents"
     THEN /\ Len(ret.events) = 1
          /\ ret.events[1].type = "EXCHANGE"
          /\ ret.events[1].inValue = [c |-> inLeg.value, e |-> 0 - WEI_DECIMALS]
          /\ ret.events[1].inSymbol = inLeg.tokenSymbol
          /\ ret.events[1].timestamp = inLeg.timeStamp
          /\ ret.events[1].outValue = [c |-> outLeg.value, e |-> 0 - WEI_DECIMALS]
          /\ ret.events[1].outSymbol = outLeg.tokenSymbol
     ELSE IF call.token \in {inLeg.tokenSymbol, outLeg.tokenSymbol}
     THEN /\ Len(ret.events) = 1
          /\ ret.events[1].type = "EXCHANGE"
          /\ ret.events[1].makerAmount.value = [c |-> inLeg.value, e |-> 0 - WEI_DECIMALS]
          /\ ret.events[1].makerAmount.currencyCode = inLeg.tokenSymbol
          /\ ret.events[1].takerAmount.value = [c |-> outLeg.value, e |-> 0 - WEI_DECIMALS]
          /\ ret.events[1].takerAmount.currencyCode = outLeg.tokenSymbol
     ELSE ret.events = <<>>

\* C1 as stated: in a group of two rows the in leg is the row sent by the viewing
\* address, and when neither row or both rows are sent by it the first row is
\* the in leg.
C1_FirstRowWhenNeitherOrBoth ==
  (ret.status # "pending" /\ Len(call.raw) = 2) =>
    /\ ret.status = "ok"
    /\ IF C1_Sends(2) /\ ~C1_Sends(1) THEN C1_LegsShown(2, 1) ELSE C1_LegsShown(1, 2)

\* C1 as amended: in a group of two rows the in leg is the row sent by the
\* viewing address; when both rows are sent by it the first row is the in leg,
\* and when neither is, the second row is the in leg and the first the out leg.
C1_SecondRowWhenNeither ==
  (ret.status # "pending" /\ Len(call.raw) = 2) =>
    /\ ret.status = "ok"
    /\ (C1_Sends(1) /\ ~C1_Sends(2)) => C1_LegsShown(1, 2)
    /\ (C1_Sends(2) /\ ~C1_Sends(1)) => C1_LegsShown(2, 1)
    /\ (C1_Sends(1) /\ C1_Sends(2)) => C1_LegsShown(1, 2)
    /\ (~C1_Sends(1) /\ ~C1_Sends(2)) => C1_LegsShown(2, 1)

\* two rows of different value, neither sent by the viewing address: the
\* exchange returned by getFeedEvents has the second row as its in leg
C1_NeitherRowSentByViewer ==
  /\ call.fn = "getFeedEvents"
  /\ Len(call.raw) = 2
  /\ ~C1_Sends(1) /\ ~C1_Sends(2)
  /\ call.raw[1].value # call.raw[2].value
  /\ ret.status = "ok"
  /\ ret.events[1].inValue.c = call.raw[2].value

C9_Row == call.raw[1]

C9_IsSender == toLowerCase(C9_Row.from) = toLowerCase(call.address)

C9_IsReceiver == toLowerCase(C9_Row.to) = toLowerCase(call.address)

\* the row is a transfer of the stable token with a value other than '0'
C9_IsStableTransfer(row) ==
  {toLowerCase(row.contractAddress)} = registry.stableTokenAddress /\ row.value # 0

C10_Selected ==
  IF call.fn = "getFeedEvents" THEN call.raw[1]
  ELSE selectTransfer(stableTokenTxs(registry, call.raw))[1]

C10_Transfer ==
  /\ ret.status = "ok"
  /\ Len(ret.events) = 1
  /\ ret.events[1].type # "EXCHANGE"

\* C10 as stated: the amount of a non-exchange event of getTokenTransactions is
\* the selected row's value over 10^18, negative when the viewing address is
\* the row's sender and positive when it is the row's receiver; getFeedEvents
\* reports the same magnitude without a sign.
C10_SignBySenderAndReceiver ==
  C10_Transfer =>
    LET row == C10_Selected
        user == toLowerCase(call.address)
    IN IF call.fn = "getFeedEvents"
       THEN ret.events[1].value = [c |-> row.value, e |-> 0 - WEI_DECIMALS]
       ELSE /\ toLowerCase(row.from) = user =>
                 ret.events[1].amount.value = [c |-> 0 - row.value, e |-> 0 - WEI_DECIMALS]
            /\ toLowerCase(row.to) = user =>
                 ret.events[1].amount.value = [c |-> row.value, e |-> 0 - WEI_DECIMALS]

\* C10 as amended: the amount of a non-exchange event of getTokenTransactions
\* is the selected row's value over 10^18, negative when the viewing address
\* is the row's sender (also when it is the receiver too) and positive when it
\* is the receiver only; getFeedEvents reports the same magnitude without a sign.
C10_SignBySender ==
  C10_Transfer =>
    LET row == C10_Selected
        user == toLowerCase(call.address)
    IN IF call.fn = "getFeedEvents"
       THEN ret.events[1].value = [c |-> row.value, e |-> 0 - WEI_DECIMALS]
       ELSE /\ ret.events[1].amount.currencyCode = row.tokenSymbol
            /\ toLowerCase(row.from) = user =>
                 ret.events[1].amount.value = [c |-> 0 - row.value, e |-> 0 - WEI_DECIMALS]
            /\ (toLowerCase(row.to) = user /\ toLowerCase(row.from) # user) =>
                 ret.events[1].amount.value = [c |-> row.value, e |-> 0 - WEI_DECIMALS]
            /\ row.value > 0

\* getTokenTransactions returns a transfer the viewing address sent to itself:
\* its amount is negative
C10_SelfTransferIsNegative ==
  /\ call.fn = "getTokenTransactions"
  /\ C10_Transfer
  /\ toLowerCase(C10_Selected.from) = toLowerCase(call.address)
  /\ toLowerCase(C10_Selected.to) = toLowerCase(call.address)
  /\ ret.events[1].amount.value.c < 0

\* what the call returns when row is the one selected and classified
C3_Classified(row) ==
  IF call.fn = "getFeedEvents"
  THEN getFeedEvents(registry, call.address, <<row>>)
  ELSE LET r == tokenTransferEvents(registry, toLowerCase(call.address), row, row.hash)
       IN IF r.status = "throw" THEN r ELSE Ok(filterByToken(r.events, call.token))

\* the rows of txs that the fee heuristic may select: a row whose two
\* companions sum to the gas cost when some pair does, a row of highest value
\* when no pair does
C3_Candidates(txs) ==
  LET gasCost == txs[1].gasUsed * txs[1].gasPrice
      pairSums(k) == \E i, j \in 1..3 :
                       /\ i < j /\ i # k /\ j # k
                       /\ txs[i].value + txs[j].value = gasCost
  IN IF \E k \in 1..3 : pairSums(k)
     THEN {k \in 1..3 : pairSums(k)}
     ELSE {k \in 1..3 : \A i \in 1..3 : txs[i].value <= txs[k].value}

\* C3 as stated: in every group of exactly three rows, when two rows' values
\* sum to gasUsed * gasPrice the row left out of that pair is selected and
\* classified, and when no pair does the highest-value row is.
C3_ExcludedRowOfAnyTriple ==
  (ret.status # "pending" /\ Len(call.raw) = 3) =>
    \E k \in C3_Candidates(call.raw) : ret = C3_Classified(call.raw[k])

C3_Stable == SelectSeq(call.raw, C9_IsStableTransfer)

\* C3 as amended: getTokenTransactions applies the fee heuristic to the rows of
\* a group (of size other than 2) that are stable-token transfers of non-zero
\* value, when exactly three rows are: the row whose two companions sum to
\* gasUsed * gasPrice is selected and classified, for each of the three pairs
\* and whatever the rows' order, and the highest-value row when no pair does.
\* getFeedEvents applies no heuristic: it classifies the first row of a group
\* of three.
C3_ExcludedRowOfStableTriple ==
  (ret.status # "pending" /\ Len(call.raw) # 2) =>
    /\ (call.fn = "getTokenTransactions" /\ Len(C3_Stable) = 3) =>
         \E k \in C3_Candidates(C3_Stable) : ret = C3_Classified(C3_Stable[k])
    /\ (call.fn = "getFeedEvents" /\ Len(call.raw) = 3) =>
         ret = C3_Classified(call.raw[1])

\* three stable-token rows of values 1, 3, 2 in that order whose gas cost is 4:
\* the pair 1 + 3 pays the fee and the transfer of value 2, the last row, is returned
C3_MiddleValueSelected ==
  /\ call.fn = "getTokenTransactions"
  /\ Len(call.raw) = 3
  /\ Len(C3_Stable) = 3
  /\ call.raw[1].value = 1 /\ call.raw[2].value = 3 /\ call.raw[3].value = 2
  /\ call.raw[1].gasUsed * call.raw[1].gasPrice = 4
  /\ ret.status = "ok"
  /\ Len(ret.events) = 1
  /\ ret.events[1].amount.value.c \in {2, 0 - 2}

----------------------------------------------------------------------------
(* Properties of a whole feed, under SpecFeed *)

C2_Hashes == {call.raw[i].hash : i \in 1..Len(call.raw)}

C2_Group(h) == SelectSeq(call.raw, LAMBDA tx : tx.hash = h)

\* the call on the batch without the rows of hash h
C2_Without(h) == Apply([call EXCEPT !.raw = SelectSeq(call.raw, LAMBDA tx : tx.hash # h)],
                       registry)

\* the call on the batch with only the first of the rows of hash h
C2_FirstRowOnly(h) ==
  LET first == CHOOSE i \in 1..Len(call.raw) :
                 /\ call.raw[i].hash = h
                 /\ \A j \in 1..(i - 1) : call.raw[j].hash # h
      kept == {i \in 1..Len(call.raw) : call.raw[i].hash # h \/ i = first}
      nth[n \in 1..Cardinality(kept)] ==
        CHOOSE i \in kept : Cardinality({j \in kept : j < i}) = n - 1
  IN Apply([call EXCEPT !.raw = [n \in 1..Cardinality(kept) |-> call.raw[nth[n]]]],
           registry)

C2_Grouped == call.fn \in {"getFeedEvents", "getTokenTransactions"}

\* C2 as stated: a hash whose group has a size other than 1, 2 or 3 has no event
\* in the feed and does not make the request fail: the outcome is that of the
\* batch without the group.
C2_OtherSizesDropped ==
  (ret.status # "pending" /\ C2_Grouped) =>
    \A h \in C2_Hashes :
      Len(C2_Group(h)) \notin {1, 2, 3} =>
        /\ ret = C2_Without(h)
        /\ \A i \in 1..Len(ret.events) : ret.events[i].hash # h

\* C2 as amended: getTokenTransactions drops a group of size other than 2, with
\* no event and no failure, exactly when the number of its rows that are
\* stable-token transfers of non-zero value is neither 1 nor 3, whatever the
\* size of the group; getFeedEvents drops no group: a group of any size other
\* than 2, four rows included, is classified as a transfer of its first row.
C2_DroppedByStableCount ==
  (ret.status # "pending" /\ C2_Grouped) =>
    \A h \in C2_Hashes :
      Len(C2_Group(h)) # 2 =>
        IF call.fn = "getTokenTransactions"
        THEN IF Len(SelectSeq(C2_Group(h), C9_IsStableTransfer)) \in {1, 3}
             THEN ret.status = "ok" =>
                    \E i \in 1..Len(call.raw) :
                      /\ call.raw[i].hash = h
                      /\ Len(ret.events) =
                           Len(C2_Without(h).events)
                           + (IF call.raw[i].tokenSymbol = call.token THEN 1 ELSE 0)
             ELSE /\ ret = C2_Without(h)
                  /\ \A i \in 1..Len(ret.events) : ret.events[i].hash # h
        ELSE /\ ret = C2_FirstRowOnly(h)
             /\ ret.status = "ok" => \E i \in 1..Len(ret.events) : ret.events[i].hash = h

\* getTokenTransactions on a batch with four stable-token rows of one hash and a
\* classified row of another hash: the feed holds the other hash's event only
C2_FourRowsDropped ==
  /\ call.fn = "getTokenTransactions"
  /\ \E h \in C2_Hashes :
       /\ Len(C2_Group(h)) = 4
       /\ Len(SelectSeq(C2_Group(h), C9_IsStableTransfer)) = 4
       /\ ret.status = "ok"
       /\ \A i \in 1..Len(ret.events) : ret.events[i].hash # h

----------------------------------------------------------------------------

\* the events of the call in the order they were pushed, before the sort
C8_Produced ==
  CASE call.fn = "getFeedEvents" ->
         feedEventsProduced(registry, call.address, call.raw).events
    [] call.fn = "getFeedRewards" -> feedRewardsProduced(registry, call.raw).events
    [] call.fn = "getTokenTransactions" ->
         filterByToken(tokenTransactionsProduced(registry, call.address, call.token,
                                                 call.raw).events, call.token)

C8_FirstSeen(h) == CHOOSE i \in 1..Len(call.raw) :
                     call.raw[i].hash = h /\ \A j \in 1..(i - 1) : call.raw[j].hash # h

\* C8: a returned feed is ordered by timestamp, non-increasing, and the events
\* of one timestamp are in the order they were produced: the order of the
\* first-seen hashes of their groups, the order of the rows for the rewards.
C8_SortedStable ==
  ret.status = "ok" =>
    /\ \A i, j \in 1..Len(ret.events) :
         i < j => ret.events[i].timestamp >= ret.events[j].timestamp
    /\ \A t \in {ret.events[i].timestamp : i \in 1..Len(ret.events)}
              \cup {C8_Produced[i].timestamp : i \in 1..Len(C8_Produced)} :
         SelectSeq(ret.events, LAMBDA ev : ev.timestamp = t)
           = SelectSeq(C8_Produced, LAMBDA ev : ev.timestamp = t)
    /\ \A i, j \in 1..Len(ret.events) :
         (C2_Grouped /\ i < j /\ ret.events[i].timestamp = ret.events[j].timestamp)
           => C8_FirstSeen(ret.events[i].hash) < C8_FirstSeen(ret.events[j].hash)

\* a returned feed with two events of one timestamp, from different hashes
C8_EqualTimestamps ==
  /\ ret.status = "ok"
  /\ \E i, j \in 1..Len(ret.events) :
       /\ i < j
       /\ ret.events[i].timestamp = ret.events[j].timestamp
       /\ ret.events[i].hash # ret.events[j].hash

----------------------------------------------------------------------------

\* C11: a feed returned by getFeedEvents or by getTokenTransactions holds at
\* most one event per transaction hash, whatever the interleaving of the rows
\* of different hashes: no two events share a hash, the number of events is at
\* most the number of distinct hashes of the batch, and the hash of every
\* event is the hash of a row of the batch.
C11_OneEventPerHash ==
  (ret.status = "ok" /\ C2_Grouped) =>
    /\ \A i, j \in 1..Len(ret.events) :
         i # j => ret.events[i].hash # ret.events[j].hash
    /\ Len(ret.events) <= Cardinality(C2_Hashes)
    /\ \A i \in 1..Len(ret.events) : ret.events[i].hash \in C2_Hashes

\* a returned grouped feed over a batch whose rows of one hash are separated
\* by a row of another hash, with an event for each of the two hashes
C11_InterleavedHashes ==
  /\ C2_Grouped
  /\ ret.status = "ok"
  /\ Len(call.raw) >= 3
  /\ call.raw[1].hash = call.raw[3].hash
  /\ call.raw[1].hash # call.raw[2].hash
  /\ {ret.events[i].hash : i \in 1..Len(ret.events)} = C2_Hashes
  /\ Len(ret.events) = 2

====
